---------------------------- MODULE Spec2Model ----------------------------
(***************************************************************************)
(* The flight integrator, chase camera and key handlers of the arcade      *)
(* flight demo, in its two variants: src/main.js (the richer one) and      *)
(* src/unnamed/part_000 (the simpler one).                                 *)
(*                                                                         *)
(* Numbers.  The program computes in IEEE doubles; the model computes on   *)
(* fixed grids, exactly where the grid allows and rounded to the nearest   *)
(* grid point otherwise (RDiv):                                            *)
(*   time      in ticks of 1/60 s              (TicksPerSecond per second) *)
(*   throttle  in units of 1/200               (ThrottleOne is 1.0)        *)
(*   speed     in units of 1/200 m/s           (SpeedOne per m/s)          *)
(*   lengths, velocities, quaternion components, sines and cosines         *)
(*             in units of 1/10000             (Scale is 1.0)              *)
(*   angles    in units of 1/8 degree          (AnglePerDegree per degree) *)
(* On these grids 0.3*dt, the throttle clamp and the speed formula are     *)
(* exact.  The rounding of doubles themselves (a few ulp) is not modelled: *)
(* an equality of the model is an equality of the program in real          *)
(* arithmetic.                                                             *)
(***************************************************************************)
EXTENDS Integers, Sequences, FiniteSets, TLC

VARIABLES
    variant,         \* which source file runs: "main" or "simple"
    env,             \* the regime the environment (keyboard, host loop) is explored in
    input,           \* the eight ControlInputs flags
    throttle,        \* let throttle
    speed,           \* let speed
    globalTime,      \* elapsed time, the sum of the dt of all frames
    quaternion,      \* aircraft.quaternion, <<x, y, z, w>>
    velocity,        \* let velocity
    position,        \* aircraft.position
    cameraPosition,  \* camera.position
    cameraTarget,    \* the point of the last camera.lookAt
    frames,          \* number of update calls so far
    keyEvents,       \* number of key events so far
    holdThrottle,    \* history: throttle at the last key event
    holdSince        \* history: globalTime at the last key event

vars == <<variant, env, input, throttle, speed, globalTime, quaternion, velocity,
          position, cameraPosition, cameraTarget, frames, keyEvents,
          holdThrottle, holdSince>>

---------------------------------------------------------------------------
(* Bounds of the exploration. *)

MaxFrames == 2
MaxKeyEvents == 2
DiveFrames == 150
HoldSeconds == 2
LevelSeconds == 72

---------------------------------------------------------------------------
(* Units. *)

TicksPerSecond == 6 * 10
ThrottleOne == 2 * 100
SpeedOne == ThrottleOne
Scale == 100 * 100
AnglePerDegree == 2 * 4

\* the frame times explored: 0, 1/60 s and 1 s
DtSet == {0, 1, TicksPerSecond}

RDiv(a, b) == (2 * a + b) \div (2 * b)

Bit(b) == IF b THEN 1 ELSE 0

Min(a, b) == IF a < b THEN a ELSE b

Max(a, b) == IF a > b THEN a ELSE b

---------------------------------------------------------------------------
(* Program constants. *)

maxSpeed == 250
minSpeed == 20
pitchRateDeg == 30
rollRateDeg == 45
yawRateDeg == 15
throttleRateTenths == 3

Variants == {"main", "simple"}

\* the height of the ground collision test
FloorHeight(v) == IF v = "main" THEN 5 * Scale ELSE 2 * Scale

\* mutant: the two variants' lift factors exchanged
LiftTenthsSwapped(v) == IF v = "main" THEN 5 ELSE 4

\* lift = speed * 0.4 (main) or liftFactor * speed with liftFactor = 0.5 (simple)
LiftTenths(v) == IF v = "main" THEN 4 ELSE 5

\* the factor of velocity.lerp, in hundredths
VelocityLerpPercent(v) == IF v = "main" THEN 12 ELSE 10

\* the factor of camera.position.lerp, in hundredths
CameraLerpPercent(v) == 10

\* the camera offset in aircraft space, in metres
CameraOffset(v) == IF v = "main" THEN <<0, 20, 60>> ELSE <<0, 15, 40>>

\* aircraft.position.set(...)
StartPosition(v) == IF v = "main" THEN <<0, 20 * Scale, 200 * Scale>>
                                   ELSE <<0, 100 * Scale, 0>>

\* gravity = (0, -9.81, 0)
Gravity == <<0, -((981 * Scale) \div 100), 0>>

FlagNames == {"pitchUp", "pitchDown", "rollLeft", "rollRight",
              "yawLeft", "yawRight", "throttleUp", "throttleDown"}

NoInput == [f \in FlagNames |-> FALSE]

\* the eight mapped key codes, and one that is not mapped
KeyCodes == {"KeyW", "KeyS", "KeyA", "KeyD", "KeyQ", "KeyE", "KeyR", "KeyF", "Space"}

---------------------------------------------------------------------------
(* Vectors (THREE.Vector3) as <<x, y, z>>. *)

\* Vector3.add
VAdd(a, b) == <<a[1] + b[1], a[2] + b[2], a[3] + b[3]>>

\* Vector3.addScaledVector(v, dt), dt in ticks
AddScaledVector(a, v, dt) ==
    <<a[1] + RDiv(v[1] * dt, TicksPerSecond),
      a[2] + RDiv(v[2] * dt, TicksPerSecond),
      a[3] + RDiv(v[3] * dt, TicksPerSecond)>>

\* Vector3.lerp(target, percent / 100): this += (target - this) * alpha
Lerp(a, target, percent) ==
    <<a[1] + RDiv((target[1] - a[1]) * percent, 100),
      a[2] + RDiv((target[2] - a[2]) * percent, 100),
      a[3] + RDiv((target[3] - a[3]) * percent, 100)>>

\* Vector3.multiplyScalar(speed): a unit-scaled vector times a speed in 1/SpeedOne m/s
MultiplyScalar(a, s) ==
    <<RDiv(a[1] * s, SpeedOne), RDiv(a[2] * s, SpeedOne), RDiv(a[3] * s, SpeedOne)>>

---------------------------------------------------------------------------
(* Sine and cosine of an angle given in 1/8 degree, by their Taylor        *)
(* polynomials in fixed point (good to about 1/Scale up to 45 degrees),    *)
(* tabulated over the half-angles one frame can produce.                   *)

\* radians, scaled, of an angle in 1/8 degree (pi = 3.14159)
Radians(a) == RDiv(a * 314159, 180 * AnglePerDegree * 10)

FMul(a, b) == RDiv(a * b, Scale)

SinSeries(a) ==
    LET x  == Radians(a)
        x2 == FMul(x, x)
        x3 == FMul(x, x2)
        x5 == FMul(x3, x2)
        x7 == FMul(x5, x2)
    IN  x - RDiv(x3, 6) + RDiv(x5, 120) - RDiv(x7, 5040)

CosSeries(a) ==
    LET x  == Radians(a)
        x2 == FMul(x, x)
        x4 == FMul(x2, x2)
        x6 == FMul(x4, x2)
    IN  Scale - RDiv(x2, 2) + RDiv(x4, 24) - RDiv(x6, 720)

\* the largest half-angle of one frame: the fastest rate over the longest frame
MaxHalfAngle == (rollRateDeg * AnglePerDegree) \div 2

HalfAngles == (0 - MaxHalfAngle) .. MaxHalfAngle

SinTable == [a \in HalfAngles |-> SinSeries(a)]

CosTable == [a \in HalfAngles |-> CosSeries(a)]

Sin(a) == SinTable[a]

Cos(a) == CosTable[a]

---------------------------------------------------------------------------
(* Quaternions (THREE.Quaternion) as <<x, y, z, w>>. *)

Identity == <<0, 0, 0, Scale>>

\* Quaternion.setFromEuler(new Euler(x, y, z, "XYZ")), the angles in 1/8 degree
SetFromEuler(x, y, z) ==
    LET c1 == Cos(x \div 2)
        c2 == Cos(y \div 2)
        c3 == Cos(z \div 2)
        s1 == Sin(x \div 2)
        s2 == Sin(y \div 2)
        s3 == Sin(z \div 2)
    IN  <<FMul(FMul(s1, c2), c3) + FMul(FMul(c1, s2), s3),
          FMul(FMul(c1, s2), c3) - FMul(FMul(s1, c2), s3),
          FMul(FMul(c1, c2), s3) + FMul(FMul(s1, s2), c3),
          FMul(FMul(c1, c2), c3) - FMul(FMul(s1, s2), s3)>>

\* Quaternion.multiply(b): this = this * b
Multiply(a, b) ==
    <<RDiv(a[1] * b[4] + a[4] * b[1] + a[2] * b[3] - a[3] * b[2], Scale),
      RDiv(a[2] * b[4] + a[4] * b[2] + a[3] * b[1] - a[1] * b[3], Scale),
      RDiv(a[3] * b[4] + a[4] * b[3] + a[1] * b[2] - a[2] * b[1], Scale),
      RDiv(a[4] * b[4] - a[1] * b[1] - a[2] * b[2] - a[3] * b[3], Scale)>>

\* Vector3.applyQuaternion(q) of a vector v given in whole units: q v q*,
\* as the matrix of q applied to v; the result is scaled
ApplyQuaternion(v, q) ==
    LET x == q[1]
        y == q[2]
        z == q[3]
        w == q[4]
        m11 == RDiv(w * w + x * x - y * y - z * z, Scale)
        m12 == RDiv(2 * (x * y - w * z), Scale)
        m13 == RDiv(2 * (x * z + w * y), Scale)
        m21 == RDiv(2 * (x * y + w * z), Scale)
        m22 == RDiv(w * w - x * x + y * y - z * z, Scale)
        m23 == RDiv(2 * (y * z - w * x), Scale)
        m31 == RDiv(2 * (x * z - w * y), Scale)
        m32 == RDiv(2 * (y * z + w * x), Scale)
        m33 == RDiv(w * w - x * x - y * y + z * z, Scale)
    IN  <<m11 * v[1] + m12 * v[2] + m13 * v[3],
          m21 * v[1] + m22 * v[2] + m23 * v[3],
          m31 * v[1] + m32 * v[2] + m33 * v[3]>>

---------------------------------------------------------------------------
(* The key handlers. *)

\* mutant: KeyW and KeyS exchanged
keydownSwapped(in, code) ==
    CASE code = "KeyW" -> [in EXCEPT !.pitchUp = TRUE]
      [] code = "KeyS" -> [in EXCEPT !.pitchDown = TRUE]
      [] code = "KeyA" -> [in EXCEPT !.rollLeft = TRUE]
      [] code = "KeyD" -> [in EXCEPT !.rollRight = TRUE]
      [] code = "KeyQ" -> [in EXCEPT !.yawLeft = TRUE]
      [] code = "KeyE" -> [in EXCEPT !.yawRight = TRUE]
      [] code = "KeyR" -> [in EXCEPT !.throttleUp = TRUE]
      [] code = "KeyF" -> [in EXCEPT !.throttleDown = TRUE]
      [] OTHER -> in

\* the keydown listener of src/main.js: a chain of ifs on e.code
keydown(in, code) ==
    LET a == IF code = "KeyW" THEN [in EXCEPT !.pitchDown = TRUE] ELSE in
        b == IF code = "KeyS" THEN [a EXCEPT !.pitchUp = TRUE] ELSE a
        c == IF code = "KeyA" THEN [b EXCEPT !.rollLeft = TRUE] ELSE b
        d == IF code = "KeyD" THEN [c EXCEPT !.rollRight = TRUE] ELSE c
        e == IF code = "KeyQ" THEN [d EXCEPT !.yawLeft = TRUE] ELSE d
        f == IF code = "KeyE" THEN [e EXCEPT !.yawRight = TRUE] ELSE e
        g == IF code = "KeyR" THEN [f EXCEPT !.throttleUp = TRUE] ELSE f
    IN  IF code = "KeyF" THEN [g EXCEPT !.throttleDown = TRUE] ELSE g

\* the keyup listener of src/main.js
keyup(in, code) ==
    LET a == IF code = "KeyW" THEN [in EXCEPT !.pitchDown = FALSE] ELSE in
        b == IF code = "KeyS" THEN [a EXCEPT !.pitchUp = FALSE] ELSE a
        c == IF code = "KeyA" THEN [b EXCEPT !.rollLeft = FALSE] ELSE b
        d == IF code = "KeyD" THEN [c EXCEPT !.rollRight = FALSE] ELSE c
        e == IF code = "KeyQ" THEN [d EXCEPT !.yawLeft = FALSE] ELSE d
        f == IF code = "KeyE" THEN [e EXCEPT !.yawRight = FALSE] ELSE e
        g == IF code = "KeyR" THEN [f EXCEPT !.throttleUp = FALSE] ELSE f
    IN  IF code = "KeyF" THEN [g EXCEPT !.throttleDown = FALSE] ELSE g

\* the keydown listener of src/unnamed/part_000: a switch on e.code
keydownSwitch(in, code) ==
    CASE code = "KeyW" -> [in EXCEPT !.pitchDown = TRUE]
      [] code = "KeyS" -> [in EXCEPT !.pitchUp = TRUE]
      [] code = "KeyA" -> [in EXCEPT !.rollLeft = TRUE]
      [] code = "KeyD" -> [in EXCEPT !.rollRight = TRUE]
      [] code = "KeyQ" -> [in EXCEPT !.yawLeft = TRUE]
      [] code = "KeyE" -> [in EXCEPT !.yawRight = TRUE]
      [] code = "KeyR" -> [in EXCEPT !.throttleUp = TRUE]
      [] code = "KeyF" -> [in EXCEPT !.throttleDown = TRUE]
      [] OTHER -> in

\* the keyup listener of src/unnamed/part_000
keyupSwitch(in, code) ==
    CASE code = "KeyW" -> [in EXCEPT !.pitchDown = FALSE]
      [] code = "KeyS" -> [in EXCEPT !.pitchUp = FALSE]
      [] code = "KeyA" -> [in EXCEPT !.rollLeft = FALSE]
      [] code = "KeyD" -> [in EXCEPT !.rollRight = FALSE]
      [] code = "KeyQ" -> [in EXCEPT !.yawLeft = FALSE]
      [] code = "KeyE" -> [in EXCEPT !.yawRight = FALSE]
      [] code = "KeyR" -> [in EXCEPT !.throttleUp = FALSE]
      [] code = "KeyF" -> [in EXCEPT !.throttleDown = FALSE]
      [] OTHER -> in

---------------------------------------------------------------------------
(* The steps of update(dt); dt in ticks. *)

\* mutant: the upper bound forgotten
ClampBelowOnly(x, lo, hi) == Max(lo, x)

\* THREE.MathUtils.clamp
Clamp(x, lo, hi) == Max(lo, Min(hi, x))

\* mutant: a rate of 0.5 per second
ThrottleStepHalf(dt) == (5 * dt * ThrottleOne) \div (10 * TicksPerSecond)

\* dt * 0.3 in throttle units
ThrottleStep(dt) == (throttleRateTenths * dt * ThrottleOne) \div (10 * TicksPerSecond)

\* mutant: clamped after the increase and again after the decrease
ThrottleUpdateClampedTwice(th, in, dt) ==
    LET up   == IF in.throttleUp
                THEN Max(0, Min(ThrottleOne, th + (throttleRateTenths * dt * ThrottleOne)
                                                   \div (10 * TicksPerSecond)))
                ELSE th
        down == IF in.throttleDown
                THEN up - (throttleRateTenths * dt * ThrottleOne) \div (10 * TicksPerSecond)
                ELSE up
    IN  Max(0, Min(ThrottleOne, down))

\* if (throttleUp) throttle += dt * 0.3; if (throttleDown) throttle -= dt * 0.3; clamp
ThrottleUpdate(th, in, dt) ==
    LET up   == IF in.throttleUp THEN th + ThrottleStep(dt) ELSE th
        down == IF in.throttleDown THEN up - ThrottleStep(dt) ELSE up
    IN  Clamp(down, 0, ThrottleOne)

\* mutant: the range taken as maxSpeed, not maxSpeed - minSpeed
SpeedOfFullRange(th) == minSpeed * SpeedOne + th * maxSpeed

\* speed = minSpeed + throttle * (maxSpeed - minSpeed)
SpeedOf(th) == minSpeed * SpeedOne + th * (maxSpeed - minSpeed)

\* degToRad(rate) * dt as an angle in 1/8 degree
RateStep(rateDeg, dt) == (rateDeg * AnglePerDegree * dt) \div TicksPerSecond

\* mutant: pitchDown adds where it should subtract
PitchNoCancel(in, dt) ==
    LET up == IF in.pitchUp THEN (pitchRateDeg * AnglePerDegree * dt) \div TicksPerSecond ELSE 0
    IN  IF in.pitchDown
        THEN up + (pitchRateDeg * AnglePerDegree * dt) \div TicksPerSecond
        ELSE up

\* let pitch = 0; if (pitchUp) pitch += pitchRate * dt; if (pitchDown) pitch -= ...
Pitch(in, dt) ==
    LET up == IF in.pitchUp THEN 0 + RateStep(pitchRateDeg, dt) ELSE 0
    IN  IF in.pitchDown THEN up - RateStep(pitchRateDeg, dt) ELSE up

Roll(in, dt) ==
    LET left == IF in.rollLeft THEN 0 + RateStep(rollRateDeg, dt) ELSE 0
    IN  IF in.rollRight THEN left - RateStep(rollRateDeg, dt) ELSE left

Yaw(in, dt) ==
    LET left == IF in.yawLeft THEN 0 + RateStep(yawRateDeg, dt) ELSE 0
    IN  IF in.yawRight THEN left - RateStep(yawRateDeg, dt) ELSE left

\* aircraft.quaternion.multiply(setFromEuler(new Euler(pitch, yaw, roll, "XYZ")))
Rotate(q, in, dt) == Multiply(q, SetFromEuler(Pitch(in, dt), Yaw(in, dt), Roll(in, dt)))

\* new Vector3(0, 0, -1).applyQuaternion(aircraft.quaternion)
Forward(q) == ApplyQuaternion(<<0, 0, -1>>, q)

\* lift = (0, speed * factor, 0), in scaled m/s^2
Lift(v, sp) == <<0, sp * ((LiftTenths(v) * Scale) \div (10 * SpeedOne)), 0>>

\* mutant: gravity and lift added per frame, not scaled by dt
AccelerateUnscaled(v, vel, sp, dt) == VAdd(vel, VAdd(Gravity, Lift(v, sp)))

\* main: velocity.addScaledVector(gravity, dt); velocity.addScaledVector(lift, dt)
\* simple: velocity.addScaledVector(forward * 0 + gravity + lift, dt)
Accelerate(v, vel, sp, dt) ==
    IF v = "main"
    THEN AddScaledVector(AddScaledVector(vel, Gravity, dt), Lift(v, sp), dt)
    ELSE AddScaledVector(vel, VAdd(Gravity, Lift(v, sp)), dt)

\* velocity.lerp(forward.multiplyScalar(speed), factor)
Blend(v, vel, q, sp) == Lerp(vel, MultiplyScalar(Forward(q), sp), VelocityLerpPercent(v))

\* the velocity after the frame's integration, before the ground test
NextVelocity(v, vel, q, sp, dt) == Blend(v, Accelerate(v, vel, sp, dt), q, sp)

\* aircraft.position.addScaledVector(velocity, dt)
Integrate(pos, vel, dt) == AddScaledVector(pos, vel, dt)

\* if (position.y < floor) { position.y = floor; ... }
GroundPosition(v, pos) ==
    IF pos[2] < FloorHeight(v) THEN <<pos[1], FloorHeight(v), pos[3]>> ELSE pos

\* mutant: the vertical velocity left as it is on contact
GroundVelocityKept(v, pos, vel) == vel

\* ... main: velocity.y = 0; simple: velocity.y = Math.max(0, velocity.y)
GroundVelocity(v, pos, vel) ==
    IF pos[2] < FloorHeight(v)
    THEN IF v = "main" THEN <<vel[1], 0, vel[3]>> ELSE <<vel[1], Max(0, vel[2]), vel[3]>>
    ELSE vel

\* camPos = aircraft.position + offset.applyQuaternion(aircraft.quaternion)
CameraDesired(v, pos, q) == VAdd(pos, ApplyQuaternion(CameraOffset(v), q))

\* camera.position.lerp(camPos, 0.1)
CameraFollow(v, cam, pos, q) == Lerp(cam, CameraDesired(v, pos, q), CameraLerpPercent(v))

\* mutant: the look-at taken from the position of the frame before
LookAtBefore(posBefore, posAfter) == posBefore

\* camera.lookAt(aircraft.position): the aircraft's position at that statement
LookAt(posBefore, posAfter) == posAfter

\* mutant: update consumes the throttle flags
InputConsumed(in) == [in EXCEPT !.throttleUp = FALSE, !.throttleDown = FALSE]

\* update(dt) never assigns to the input record
InputAfterUpdate(in) == in

---------------------------------------------------------------------------
(* The state after construction, and the environment.                      *)
(*                                                                         *)
(* The keyboard and the host's frame loop are explored in three regimes:   *)
(*   "free"  any key events and any frame times of DtSet, in any order,    *)
(*           up to MaxKeyEvents events and MaxFrames frames;               *)
(*   "dive"  KeyW pressed and held over DiveFrames frames of 1/60 s: the   *)
(*           nose goes down until the aircraft meets the ground;           *)
(*   "hold"  KeyR or KeyF pressed and held over HoldSeconds seconds of     *)
(*           frames of 1/60 s, a second throttle key pressed at any moment *)
(*           of them.                                                      *)
(* "level" is the regime of the level-flight scenario (InitLevel): frames  *)
(* of 1/60 s and no key events, over LevelSeconds seconds.                 *)

Regimes == {"free", "dive", "hold"}

Constructed ==
    /\ input = NoInput
    /\ throttle = ThrottleOne \div 2
    /\ speed = 50 * SpeedOne
    /\ globalTime = 0
    /\ quaternion = Identity
    /\ velocity = <<0, 0, -Scale>>
    /\ position = StartPosition(variant)
    /\ cameraPosition = <<0, 0, 0>>
    /\ cameraTarget = <<0, 0, -Scale>>
    /\ frames = 0
    /\ keyEvents = 0
    /\ holdThrottle = throttle
    /\ holdSince = 0

Init ==
    /\ variant \in Variants
    /\ env \in Regimes
    /\ Constructed

\* whether the environment delivers this key event now
KeyOffered(code, down) ==
    \/ env = "free" /\ keyEvents < MaxKeyEvents
    \/ env = "dive" /\ keyEvents = 0 /\ down /\ code = "KeyW"
    \/ env = "hold" /\ keyEvents < 2 /\ down /\ code \in {"KeyR", "KeyF"}

\* whether the host runs a frame of this length now
FrameOffered(dt) ==
    \/ env = "free" /\ frames < MaxFrames
    \/ env = "dive" /\ keyEvents = 1 /\ dt = 1 /\ frames < DiveFrames
    \/ env = "hold" /\ keyEvents > 0 /\ dt = 1 /\ frames < HoldSeconds * TicksPerSecond
    \/ env = "level" /\ dt = 1 /\ frames < LevelSeconds * TicksPerSecond

KeyDown(code) ==
    /\ KeyOffered(code, TRUE)
    /\ input' = IF variant = "main" THEN keydown(input, code)
                                    ELSE keydownSwitch(input, code)
    /\ keyEvents' = keyEvents + 1
    /\ holdThrottle' = throttle
    /\ holdSince' = globalTime
    /\ UNCHANGED <<variant, env, throttle, speed, globalTime, quaternion, velocity,
                   position, cameraPosition, cameraTarget, frames>>

KeyUp(code) ==
    /\ KeyOffered(code, FALSE)
    /\ input' = IF variant = "main" THEN keyup(input, code)
                                    ELSE keyupSwitch(input, code)
    /\ keyEvents' = keyEvents + 1
    /\ holdThrottle' = throttle
    /\ holdSince' = globalTime
    /\ UNCHANGED <<variant, env, throttle, speed, globalTime, quaternion, velocity,
                   position, cameraPosition, cameraTarget, frames>>

\* one call of update(dt) from animate()
Frame(dt) ==
    /\ FrameOffered(dt)
    /\ LET th  == ThrottleUpdate(throttle, input, dt)
           sp  == SpeedOf(th)
           q   == Rotate(quaternion, input, dt)
           vel == NextVelocity(variant, velocity, q, sp, dt)
           pos == Integrate(position, vel, dt)
           onGround == GroundPosition(variant, pos)
       IN  /\ globalTime' = globalTime + dt
           /\ throttle' = th
           /\ speed' = sp
           /\ quaternion' = q
           /\ velocity' = GroundVelocity(variant, pos, vel)
           /\ position' = onGround
           /\ cameraPosition' = CameraFollow(variant, cameraPosition, onGround, q)
           /\ cameraTarget' = LookAt(position, onGround)
    /\ input' = InputAfterUpdate(input)
    /\ frames' = frames + 1
    /\ UNCHANGED <<variant, env, keyEvents, holdThrottle, holdSince>>

Next ==
    \/ \E code \in KeyCodes : KeyDown(code)
    \/ \E code \in KeyCodes : KeyUp(code)
    \/ \E dt \in DtSet : Frame(dt)

Spec == Init /\ [][Next]_vars

\* The level-flight scenario: level at height 20, at rest, throttle 0, no key held.
InitLevel ==
    /\ variant \in Variants
    /\ env = "level"
    /\ input = NoInput
    /\ throttle = 0
    /\ speed = SpeedOf(0)
    /\ globalTime = 0
    /\ quaternion = Identity
    /\ velocity = <<0, 0, 0>>
    /\ position = <<0, 20 * Scale, 0>>
    /\ cameraPosition = <<0, 0, 0>>
    /\ cameraTarget = <<0, 0, -Scale>>
    /\ frames = 0
    /\ keyEvents = 0
    /\ holdThrottle = 0
    /\ holdSince = 0

NextLevel == \E dt \in DtSet : Frame(dt)

SpecLevel == InitLevel /\ [][NextLevel]_vars

---------------------------------------------------------------------------
(* Properties. *)

\* a step that is one call of update, and its dt
FrameStep == frames' = frames + 1

StepDt == globalTime' - globalTime

\* 0.3 * t in throttle units, t in ticks
ThrottleGain(t) == (3 * t * ThrottleOne) \div (10 * TicksPerSecond)

\* C1: the throttle lies in [0, 1] in every state, before and after every frame.
C1_ThrottleInRange == throttle >= 0 /\ throttle <= ThrottleOne

\* throttleUp held long enough that the sum without the clamp exceeds 1
C1_Witness ==
    /\ frames > 0
    /\ input.throttleUp /\ ~input.throttleDown
    /\ holdThrottle + ThrottleGain(globalTime - holdSince) > ThrottleOne
    /\ throttle = ThrottleOne

\* the height the frame's position integration yields, before the ground test
IntegratedHeight ==
    Integrate(position, NextVelocity(variant, velocity, quaternion', speed', StepDt),
              StepDt)[2]

\* C2: the height is never below the floor threshold, and a frame whose position
\* integration yields a height below it ends at the threshold exactly, with a
\* vertical velocity >= 0.
C2_NeverBelowFloor ==
    /\ [](position[2] >= FloorHeight(variant))
    /\ [][FrameStep /\ IntegratedHeight < FloorHeight(variant)
            => position'[2] = FloorHeight(variant) /\ velocity'[2] >= 0]_vars

\* the simple variant held on the ground, its nose pointing down
C2_Witness ==
    /\ variant = "simple"
    /\ frames > 0
    /\ position[2] = FloorHeight(variant)
    /\ velocity[2] = 0
    /\ Forward(quaternion)[2] < 0

\* a frame of dt = 0 with all eight flags false
IdleZeroFrame == FrameStep /\ StepDt = 0 /\ input = NoInput

\* C3 as stated: a frame of dt = 0 with no flag set leaves position, orientation,
\* velocity, camera position and look-at target unchanged.
C3_Original ==
    [][IdleZeroFrame
        => UNCHANGED <<position, quaternion, velocity, cameraPosition, cameraTarget>>]_vars

\* C3 amended: such a frame leaves position, orientation and throttle unchanged,
\* and the look-at target once a frame has run; the velocity and the camera position
\* still move by their fixed factors toward forward * speed and the desired
\* camera position.
C3_ZeroStep ==
    [][IdleZeroFrame
        => /\ position' = position
           /\ quaternion' = quaternion
           /\ throttle' = throttle
           /\ frames > 0 => cameraTarget' = cameraTarget
           /\ \A i \in 1..3 :
                 /\ velocity'[i] = velocity[i]
                      + RDiv((RDiv(Forward(quaternion)[i] * speed', SpeedOne) - velocity[i])
                             * VelocityLerpPercent(variant), 100)
                 /\ cameraPosition'[i] = cameraPosition[i]
                      + RDiv((position[i] + ApplyQuaternion(CameraOffset(variant), quaternion)[i]
                              - cameraPosition[i]) * 10, 100)]_vars

\* after one idle frame of dt = 0 the aircraft has not moved and the velocity has
C3_Witness ==
    /\ frames = 1 /\ globalTime = 0 /\ keyEvents = 0
    /\ position = StartPosition(variant)
    /\ quaternion = Identity
    /\ velocity # <<0, 0, -Scale>>
    /\ cameraPosition # <<0, 0, 0>>

\* the 5 simulated seconds of the level-flight scenario, in frames of 1/60 s
ScenarioFrames == 5 * TicksPerSecond

\* C4 as stated: in the level-flight scenario the height has reached the floor
\* threshold within 5 simulated seconds.
C4_Original == frames = ScenarioFrames => position[2] = FloorHeight(variant)

\* C4 amended: in the level-flight scenario the height stays above the floor
\* threshold during the 5 seconds.  In the main variant it decreases in every one
\* of their frames and never increases, reaches the threshold only between 66 and
\* 70 seconds, and from then on stays exactly there with vertical velocity >= 0.
\* In the simple variant the height never decreases.
C4_LevelFlight ==
    /\ [](frames <= ScenarioFrames => position[2] > FloorHeight(variant))
    /\ [](variant = "main" /\ frames <= 66 * TicksPerSecond
            => position[2] > FloorHeight(variant))
    /\ [](variant = "main" /\ frames >= 70 * TicksPerSecond
            => position[2] = FloorHeight(variant) /\ velocity[2] >= 0)
    /\ [][variant = "main"
            => /\ position'[2] <= position[2]
               /\ frames < ScenarioFrames => position'[2] < position[2]
               /\ position[2] = FloorHeight(variant)
                    => position'[2] = FloorHeight(variant) /\ velocity'[2] >= 0]_vars
    /\ [][variant = "simple" => position'[2] >= position[2]]_vars

\* the main variant on the ground, long after the 5 seconds
C4_Witness ==
    /\ env = "level"
    /\ variant = "main"
    /\ frames > ScenarioFrames
    /\ position[2] = FloorHeight(variant)
    /\ velocity[2] = 0

\* C5: while throttleUp is held and throttleDown is not, the throttle is
\* min(t0 + 0.3 * T, 1), t0 the throttle and T the time elapsed since the last key
\* event; from 0.5, 60 frames of 1/60 s give 0.8.
C5_ThrottleRamp ==
    /\ input.throttleUp /\ ~input.throttleDown
         => throttle = Min(holdThrottle + ThrottleGain(globalTime - holdSince), ThrottleOne)
    /\ env = "hold" /\ keyEvents = 1 /\ input.throttleUp /\ frames = TicksPerSecond
         => throttle = (8 * ThrottleOne) \div 10

\* throttleUp held from 0.5 over 60 frames of 1/60 s
C5_Witness ==
    /\ env = "hold" /\ keyEvents = 1
    /\ input.throttleUp
    /\ holdThrottle = ThrottleOne \div 2
    /\ frames = TicksPerSecond /\ globalTime = TicksPerSecond
    /\ throttle = (8 * ThrottleOne) \div 10

\* the key table of the claim
KeyFlag ==
    [KeyW |-> "pitchDown", KeyS |-> "pitchUp", KeyA |-> "rollLeft", KeyD |-> "rollRight",
     KeyQ |-> "yawLeft", KeyE |-> "yawRight", KeyR |-> "throttleUp", KeyF |-> "throttleDown"]

\* the flags after a key event of the table
Pressed(code, value) ==
    IF code \in DOMAIN KeyFlag THEN [input EXCEPT ![KeyFlag[code]] = value] ELSE input

\* C6: a keydown of a mapped key sets exactly its flag, a keyup clears exactly that
\* flag, and an event of any other key leaves all eight flags unchanged.
C6_KeyTable ==
    [][\A code \in KeyCodes :
          /\ KeyDown(code) => input' = Pressed(code, TRUE)
          /\ KeyUp(code) => input' = Pressed(code, FALSE)]_vars

\* two keys pressed one after the other
C6_Witness ==
    /\ keyEvents = 2
    /\ input = [NoInput EXCEPT !.pitchDown = TRUE, !.throttleUp = TRUE]

\* C7: after every frame the look-at target is the aircraft's position at the end
\* of that frame, and only the camera position is interpolated, by 0.1, toward the
\* desired offset position.
C7_CameraTarget ==
    /\ [](frames > 0 => cameraTarget = position)
    /\ [][FrameStep
            => \A i \in 1..3 :
                  cameraPosition'[i] = cameraPosition[i]
                      + RDiv(position'[i]
                             + ApplyQuaternion(CameraOffset(variant), quaternion')[i]
                             - cameraPosition[i], 10)]_vars

\* on the ground after the clamp, the camera still short of its desired position
C7_Witness ==
    /\ env = "dive"
    /\ position[2] = FloorHeight(variant)
    /\ position # StartPosition(variant)
    /\ cameraTarget = position
    /\ cameraPosition # CameraDesired(variant, position, quaternion)

\* rate * dt * (plus - minus) as an angle in 1/8 degree
SignedStep(rateDeg, plus, minus) ==
    ((rateDeg * AnglePerDegree * StepDt) \div TicksPerSecond) * (Bit(plus) - Bit(minus))

\* C8: a frame multiplies the orientation by the rotation of Euler angles
\* pitch = 30 deg/s * dt * (pitchUp - pitchDown), yaw = 15 deg/s * dt * (yawLeft - yawRight),
\* roll = 45 deg/s * dt * (rollLeft - rollRight); pitch-up alone over 1 s is the
\* rotation by 30 degrees about X, (sin 15, 0, 0, cos 15); flags that all cancel
\* leave the orientation unchanged.
C8_Rotation ==
    [][FrameStep
        => /\ quaternion' =
                Multiply(quaternion,
                         SetFromEuler(SignedStep(30, input.pitchUp, input.pitchDown),
                                      SignedStep(15, input.yawLeft, input.yawRight),
                                      SignedStep(45, input.rollLeft, input.rollRight)))
           /\ input = [NoInput EXCEPT !.pitchUp = TRUE] /\ StepDt = TicksPerSecond
                => quaternion' = Multiply(quaternion, <<2588, 0, 0, 9659>>)
           /\ (input.pitchUp = input.pitchDown /\ input.rollLeft = input.rollRight
                 /\ input.yawLeft = input.yawRight)
                => quaternion' = quaternion]_vars

\* pitch-up held alone over one frame of 1 s, from level
C8_Witness ==
    /\ frames = 1 /\ globalTime = TicksPerSecond
    /\ input = [NoInput EXCEPT !.pitchUp = TRUE]
    /\ quaternion = <<2588, 0, 0, 9659>>

\* C9: a frame with throttleUp and throttleDown both held leaves the throttle as
\* it was, at the bounds 0 and 1 too.
C9_BothHeld ==
    [][FrameStep /\ input.throttleUp /\ input.throttleDown => throttle' = throttle]_vars

\* both held at throttle 1 over a frame of dt > 0
C9_Witness ==
    /\ input.throttleUp /\ input.throttleDown
    /\ throttle = ThrottleOne
    /\ holdThrottle = ThrottleOne
    /\ globalTime > holdSince

\* the key of a flag, by the key table
KeyOf(f) == CHOOSE code \in DOMAIN KeyFlag : KeyFlag[code] = f

\* C10: a frame leaves all eight flags unchanged, and a flag changes only in the
\* keydown (to true) or the keyup (to false) of its own key.
C10_OnlyKeysWrite ==
    [][/\ FrameStep => input' = input
       /\ \A f \in FlagNames :
             input'[f] # input[f]
                => IF input'[f] THEN KeyDown(KeyOf(f)) ELSE KeyUp(KeyOf(f))]_vars

\* a flag still held after two frames of 1/60 s that followed its keydown
C10_Witness ==
    /\ keyEvents = 1 /\ holdSince = 0
    /\ frames = 2 /\ globalTime = 2
    /\ input = [NoInput EXCEPT !.rollLeft = TRUE]

\* minSpeed + throttle * (maxSpeed - minSpeed) = 20 + 230 * throttle, in speed units
SpeedFromThrottle(th) == 20 * SpeedOne + 230 * th

\* the velocity the frame's integration yields when it uses the speed sp
VelocityWith(sp) == NextVelocity(variant, velocity, quaternion', sp, StepDt)

\* C11: after every frame the speed is 20 + 230 * throttle for the throttle of that
\* same frame, so it lies in [20, 250]; and the frame's velocity integration (lift
\* and the blend toward forward * speed) uses that speed.
C11_SpeedFromThrottle ==
    /\ [](frames > 0
            => /\ speed = SpeedFromThrottle(throttle)
               /\ speed >= 20 * SpeedOne /\ speed <= 250 * SpeedOne)
    /\ [][FrameStep
            => /\ speed' = SpeedFromThrottle(throttle')
               /\ velocity'[1] = VelocityWith(SpeedFromThrottle(throttle'))[1]
               /\ velocity'[3] = VelocityWith(SpeedFromThrottle(throttle'))[3]
               /\ position'[2] > FloorHeight(variant)
                    => velocity'[2] = VelocityWith(SpeedFromThrottle(throttle'))[2]]_vars

\* one frame of 1 s with throttleUp held: throttle 0.8 and speed 204, both new
C11_Witness ==
    /\ frames = 1 /\ globalTime = TicksPerSecond
    /\ input.throttleUp /\ ~input.throttleDown
    /\ throttle = (8 * ThrottleOne) \div 10
    /\ speed = 204 * SpeedOne
    /\ position[2] > FloorHeight(variant)

=============================================================================
